---- MODULE Spec2Model ----
(***************************************************************************)
(* A model of the data-preparation and evaluation helpers of the           *)
(* housing-price regression toolkit: src/utils/data_processing.py,         *)
(* src/utils/evaluation.py and uteis/preprocessing.py.                     *)
(*                                                                         *)
(* Every helper is a synchronous function of its arguments, so each        *)
(* specification below draws the arguments of one helper in its initial    *)
(* state and applies the helper in one action.  The pandas / scikit-learn  *)
(* routines the helpers call are modelled by what they compute on the      *)
(* bounded inputs (exact rational arithmetic stands for floating point).   *)
(***************************************************************************)
EXTENDS Integers, Sequences, FiniteSets, TLC

VARIABLES
    pc,     \* position of the caller: "start", then one label per completed call
    df,     \* the caller's Table (a pandas DataFrame)
    args,   \* the remaining arguments of the call, a record named as in the source
    ret,    \* what the call returned or raised
    fitted, \* what a call leaves behind it: the state a fitted ColumnTransformer
            \* has learned, the objects a call has made
    fs      \* the world outside the caller: the file system, what was displayed

vars == <<pc, df, args, ret, fitted, fs>>

(***************************************************************************)
(* Bounds of the model.                                                    *)
(***************************************************************************)
MaxRows == 2
MaxCols == 2
MaxSplitRows == 4

(***************************************************************************)
(* Values.                                                                 *)
(***************************************************************************)
None == "None"

\* A rational number num/den with den > 0 (a Python float, without rounding).
Rat(n, d) == [num |-> n, den |-> d]

RECURSIVE Gcd(_, _)
Gcd(a, b) == IF b = 0 THEN a ELSE Gcd(b, a % b)

Abs(x) == IF x < 0 THEN -x ELSE x

Norm(n, d) ==
    LET g == Gcd(Abs(n), Abs(d))
        s == IF d < 0 THEN -1 ELSE 1
    IN  Rat(s * (n \div g), s * (d \div g))

RatAdd(x, y) == Norm(x.num * y.den + y.num * x.den, x.den * y.den)
RatSub(x, y) == Norm(x.num * y.den - y.num * x.den, x.den * y.den)
RatMul(x, y) == Norm(x.num * y.num, x.den * y.den)
RatDivInt(x, k) == Norm(x.num, x.den * k)
\* float NaN, the value of 0/0; every comparison with it is False.
NaN == Rat(0, 0)
IsNaN(x) == x.den = 0
RatLess(x, y) == ~IsNaN(x) /\ ~IsNaN(y) /\ x.num * y.den < y.num * x.den
RatLeq(x, y) == ~IsNaN(x) /\ ~IsNaN(y) /\ x.num * y.den <= y.num * x.den
RatEq(x, y) == ~IsNaN(x) /\ ~IsNaN(y) /\ x.num * y.den = y.num * x.den

\* A cell of a Table.  kind "na" is a missing entry (NaN / None); "num" holds
\* the rational num/den; "bool" holds num = 1 for True; "str" holds the text s,
\* a sequence of characters.
NA == [kind |-> "na", num |-> 0, den |-> 1, s |-> <<>>]
Num(n, d) == [kind |-> "num", num |-> n, den |-> d, s |-> <<>>]
IntCell(n) == Num(n, 1)
Bool(b) == [kind |-> "bool", num |-> IF b THEN 1 ELSE 0, den |-> 1, s |-> <<>>]
Str(t) == [kind |-> "str", num |-> 0, den |-> 1, s |-> t]

isnull(cell) == cell.kind = "na"

Range(q) == {q[i] : i \in 1..Len(q)}

\* The sequences over S, without repetition, of length at most n, in which the
\* names keep the order of the sequence `order`.
RECURSIVE SubSeqsOf(_)
SubSeqsOf(order) ==
    IF order = <<>> THEN {<<>>}
    ELSE LET rest == SubSeqsOf(Tail(order))
         IN  rest \cup {<<Head(order)>> \o r : r \in rest}

\* list.remove(x): the list without the first occurrence of x.
RECURSIVE remove(_, _)
remove(list, x) ==
    IF list = <<>> THEN <<>>
    ELSE IF Head(list) = x THEN Tail(list)
    ELSE <<Head(list)>> \o remove(Tail(list), x)

Filter(list, keep(_)) == SelectSeq(list, keep)

(***************************************************************************)
(* Tables.  A Table has its column names in order, a row count and, per    *)
(* column, a dtype and one cell per row.  Column names are unique, as      *)
(* read_csv makes them.                                                    *)
(***************************************************************************)
ColumnOrder == <<"LotArea", "Alley", "SalePrice">>
ColNames == Range(ColumnOrder)

MkTable(cols, n, c) == [columns |-> cols, nrows |-> n, col |-> c]

\* The Tables of n rows and at most k columns, the columns drawn from Columns.
TablesOver(n, k, Columns) ==
    UNION { { MkTable(cols, n, c) : c \in [Range(cols) -> Columns] }
            : cols \in {q \in SubSeqsOf(ColumnOrder) : Len(q) <= k} }

\* The cells a column of a dtype holds: int64 and bool columns hold no missing
\* entry; float64 holds numbers and NaN; object and category hold text and None.
CellsOf(dtype, nums, strs) ==
    CASE dtype = "int64" -> {IntCell(v) : v \in nums}
      [] dtype = "float64" -> {NA} \cup {IntCell(v) : v \in nums}
      [] dtype = "bool" -> {Bool(TRUE)}
      [] OTHER -> {NA} \cup {Str(t) : t \in strs}

ColumnsOf(n, dtypes, nums, strs) ==
    UNION { { [dtype |-> d, values |-> v] : v \in [1..n -> CellsOf(d, nums, strs)] }
            : d \in dtypes }

\* The dtypes of the columns: the four read_csv infers, and category.
DTypes == {"int64", "float64", "object", "category", "bool"}

\* df.select_dtypes(include=dtypes).columns.tolist()
select_dtypes(t, dtypes) ==
    LET keep(c) == t.col[c].dtype \in dtypes IN Filter(t.columns, keep)

\* df.isnull().sum()[c]
isnull_sum(t, c) == Cardinality({i \in 1..t.nrows : isnull(t.col[c].values[i])})

\* df.drop(columns=cols)
drop(t, cols) ==
    LET keep(c) == c \notin cols
        left == Filter(t.columns, keep)
    IN  MkTable(left, t.nrows, [c \in Range(left) |-> t.col[c]])

(***************************************************************************)
(* preprocess_data (src/utils/data_processing.py)                          *)
(***************************************************************************)
\* Mutant of missing_values: the fraction of the entries that are present.
missing_values_notnull(t, c) ==
    IF t.nrows = 0 THEN NaN ELSE Rat(t.nrows - isnull_sum(t, c), t.nrows)

\* (df.isnull().sum() / len(df))[c]: 0/0 is NaN on a Table without rows.
missing_values(t, c) ==
    IF t.nrows = 0 THEN NaN ELSE Rat(isnull_sum(t, c), t.nrows)

\* Mutant of columns_to_drop: >= in place of >.
columns_to_drop_geq(t, missing_threshold) ==
    {c \in Range(t.columns) : RatLeq(missing_threshold, missing_values(t, c))}

\* missing_values[missing_values > missing_threshold].index.tolist()
columns_to_drop(t, missing_threshold) ==
    {c \in Range(t.columns) : RatLess(missing_threshold, missing_values(t, c))}

\* Mutant of RemoveTarget: the target column stays in the lists.
RemoveTarget_keep(numeric, categorical, target_column) == <<numeric, categorical>>

\* The target column leaves the list that holds it (lines 58-61).
RemoveTarget(numeric, categorical, target_column) ==
    IF target_column # None /\ target_column \in Range(numeric)
    THEN <<remove(numeric, target_column), categorical>>
    ELSE IF target_column # None /\ target_column \in Range(categorical)
    THEN <<numeric, remove(categorical, target_column)>>
    ELSE <<numeric, categorical>>

\* Mutant of preprocess_data: the name lists are not cut down to the columns
\* that are left after the drop (lines 70-71 left out).
preprocess_data_unfiltered(t, target_column, drop_high_missing, missing_threshold) ==
    LET numeric0 == select_dtypes(t, {"int64", "float64"})
        categorical0 == select_dtypes(t, {"object", "category"})
        lists == RemoveTarget(numeric0, categorical0, target_column)
        out == IF drop_high_missing
               THEN drop(t, columns_to_drop(t, missing_threshold))
               ELSE t
    IN  [df |-> out, numeric_features |-> lists[1], categorical_features |-> lists[2]]

preprocess_data(t, target_column, drop_high_missing, missing_threshold) ==
    LET numeric0 == select_dtypes(t, {"int64", "float64"})
        categorical0 == select_dtypes(t, {"object", "category"})
        lists == RemoveTarget(numeric0, categorical0, target_column)
        out == IF drop_high_missing
               THEN drop(t, columns_to_drop(t, missing_threshold))
               ELSE t
        in_df(c) == c \in Range(out.columns)
    IN  [df |-> out,
         numeric_features |->
             IF drop_high_missing THEN Filter(lists[1], in_df) ELSE lists[1],
         categorical_features |->
             IF drop_high_missing THEN Filter(lists[2], in_df) ELSE lists[2]]

Thresholds == {Rat(-1, 2), Rat(0, 1), Rat(1, 2), Rat(4, 5), Rat(1, 1), Rat(3, 2)}

PreprocessTables(rows, cols) ==
    UNION { TablesOver(n, cols, ColumnsOf(n, DTypes, {1}, {<<"x">>}))
            : n \in 0..rows }

Unset == [kind |-> "unset"]

InitPreprocess ==
    /\ pc = "start"
    /\ df \in PreprocessTables(MaxRows, MaxCols)
    /\ args = Unset
    /\ ret = Unset
    /\ fitted = Unset
    /\ fs = Unset

PreprocessArgs ==
    [target_column : {None} \cup ColNames,
     drop_high_missing : BOOLEAN,
     missing_threshold : Thresholds]

CallPreprocess ==
    /\ pc = "start"
    /\ pc' = "preprocess_data"
    /\ \E a \in PreprocessArgs :
           /\ args' = a
           /\ ret' = preprocess_data(df, a.target_column, a.drop_high_missing,
                                     a.missing_threshold)
    /\ UNCHANGED <<df, fitted, fs>>

NextPreprocess == CallPreprocess

SpecPreprocess == InitPreprocess /\ [][NextPreprocess]_vars

Preprocessed == pc = "preprocess_data"

\* The columns of the caller's Table by declared type, and the missing count
\* of a column, read off the Table itself.
NumericColumns == {c \in Range(df.columns) : df.col[c].dtype \in {"int64", "float64"}}
CategoricalColumns ==
    {c \in Range(df.columns) : df.col[c].dtype \in {"object", "category"}}
MissingCount(c) == Cardinality({i \in 1..df.nrows : df.col[c].values[i] = NA})
\* The missing fraction of column c is strictly greater than the threshold.
AboveThreshold(c) ==
    /\ df.nrows > 0
    /\ MissingCount(c) * args.missing_threshold.den
           > args.missing_threshold.num * df.nrows
AtThreshold(c) ==
    /\ df.nrows > 0
    /\ MissingCount(c) * args.missing_threshold.den
           = args.missing_threshold.num * df.nrows
AllMissing(c) == df.nrows > 0 /\ MissingCount(c) = df.nrows

\* C1: the numeric and categorical name lists preprocess_data returns share no
\* column, and the target column, when one is given, is in neither list.
C1_RolesDisjoint ==
    Preprocessed =>
        /\ Range(ret.numeric_features) \cap Range(ret.categorical_features) = {}
        /\ args.target_column # None =>
               /\ args.target_column \notin Range(ret.numeric_features)
               /\ args.target_column \notin Range(ret.categorical_features)

\* A call whose target is a numeric column of the Table, next to a categorical
\* column that stays listed.
C1_Witness ==
    /\ Preprocessed
    /\ args.target_column \in NumericColumns
    /\ ret.categorical_features # <<>>

\* C2: with drop_high_missing the returned Table and both name lists lose
\* exactly the columns whose missing fraction is strictly greater than the
\* threshold (a fraction equal to it is kept); without it no column is removed.
C2_DropExactlyAbove ==
    Preprocessed =>
        LET kept == IF args.drop_high_missing
                    THEN {c \in Range(df.columns) : ~AboveThreshold(c)}
                    ELSE Range(df.columns)
        IN  /\ Range(ret.df.columns) = kept
            /\ \A c \in kept : ret.df.col[c] = df.col[c]
            /\ ret.df.nrows = df.nrows
            /\ Range(ret.numeric_features)
                   = (NumericColumns \cap kept) \ {args.target_column}
            /\ Range(ret.categorical_features)
                   = (CategoricalColumns \cap kept) \ {args.target_column}

\* One column exactly at the threshold is kept while another, above it, is
\* dropped.
C2_Witness ==
    /\ Preprocessed
    /\ args.drop_high_missing
    /\ \E c \in Range(df.columns) :
           AtThreshold(c) /\ MissingCount(c) > 0 /\ c \in Range(ret.df.columns)
    /\ \E c \in Range(df.columns) : AboveThreshold(c) /\ c \notin Range(ret.df.columns)

\* C3 as stated: with drop_high_missing a column whose values are all missing
\* is dropped whatever the threshold is.
C3_AllMissingAlwaysDropped ==
    (Preprocessed /\ args.drop_high_missing) =>
        \A c \in Range(df.columns) : AllMissing(c) => c \notin Range(ret.df.columns)

\* C3 amended: with drop_high_missing a column whose values are all missing is
\* dropped exactly when the threshold is below 1; at a threshold of 1 or more
\* it stays in the returned Table.
C3_AllMissingDroppedBelowOne ==
    (Preprocessed /\ args.drop_high_missing) =>
        \A c \in Range(df.columns) :
            AllMissing(c) =>
                (c \notin Range(ret.df.columns)
                    <=> args.missing_threshold.num < args.missing_threshold.den)

\* An all-missing column kept at threshold 1, in a call with drop_high_missing.
C3_Witness ==
    /\ Preprocessed
    /\ args.drop_high_missing
    /\ args.missing_threshold = Rat(1, 1)
    /\ \E c \in Range(df.columns) : AllMissing(c) /\ c \in Range(ret.df.columns)


(***************************************************************************)
(* preencher_valores_numericos (src/utils/data_processing.py and           *)
(* uteis/preprocessing.py)                                                 *)
(***************************************************************************)
Returned(v) == [status |-> "returned", value |-> v, error |-> None]
Raised(e) == [status |-> "raised", value |-> None, error |-> e]

\* The characters of the texts of the model, in code-point order.
Alphabet == <<"\"", ",", "-", ".", "0", "1", "2", "5", "A", "N", "a", "n", "x">>
CharRank(ch) == CHOOSE i \in 1..Len(Alphabet) : Alphabet[i] = ch

RECURSIVE TextLess(_, _)
TextLess(a, b) ==
    IF b = <<>> THEN FALSE
    ELSE IF a = <<>> THEN TRUE
    ELSE IF Head(a) = Head(b) THEN TextLess(Tail(a), Tail(b))
    ELSE CharRank(Head(a)) < CharRank(Head(b))

\* The order pandas sorts the values of one column in.
CellLess(a, b) ==
    IF a.kind = "str" /\ b.kind = "str" THEN TextLess(a.s, b.s)
    ELSE RatLess(Rat(a.num, a.den), Rat(b.num, b.den))

\* The entries of a column that are present, in row order.
dropna(values) == LET present(cell) == ~isnull(cell) IN SelectSeq(values, present)

RECURSIVE Insert(_, _)
Insert(sorted, cell) ==
    IF sorted = <<>> THEN <<cell>>
    ELSE IF CellLess(cell, Head(sorted)) THEN <<cell>> \o sorted
    ELSE <<Head(sorted)>> \o Insert(Tail(sorted), cell)

RECURSIVE sort_values(_)
sort_values(values) ==
    IF values = <<>> THEN <<>> ELSE Insert(sort_values(Tail(values)), Head(values))

RECURSIVE RatSum(_)
RatSum(values) ==
    IF values = <<>> THEN Rat(0, 1)
    ELSE RatAdd(Rat(Head(values).num, Head(values).den), RatSum(Tail(values)))

HasText(values) == \E i \in 1..Len(values) : values[i].kind = "str"

\* Series.mean(): the mean of the present entries, NaN when there is none; text
\* cannot be averaged.
mean(values) ==
    LET present == dropna(values)
        m == RatDivInt(RatSum(present), Len(present))
    IN  IF HasText(values) THEN Raised("TypeError")
        ELSE IF present = <<>> THEN Returned(NA)
        ELSE Returned(Num(m.num, m.den))

\* Series.median(): the middle present entry, or the mean of the two middle ones.
median(values) ==
    LET sorted == sort_values(dropna(values))
        n == Len(sorted)
        lo == sorted[(n + 1) \div 2]
        hi == sorted[(n \div 2) + 1]
        m == RatDivInt(RatAdd(Rat(lo.num, lo.den), Rat(hi.num, hi.den)), 2)
    IN  IF HasText(values) THEN Raised("TypeError")
        ELSE IF n = 0 THEN Returned(NA)
        ELSE Returned(Num(m.num, m.den))

Count(values, cell) == Cardinality({i \in 1..Len(values) : values[i] = cell})

\* Series.mode()[0]: the most frequent present entry, the smallest of them on a
\* tie; mode() is empty when no entry is present and [0] then fails.
mode0(values) ==
    LET present == dropna(values)
        best == {v \in Range(present) :
                    \A w \in Range(present) : Count(present, w) <= Count(present, v)}
    IN  IF present = <<>> THEN Raised("KeyError")
        ELSE Returned(CHOOSE v \in best : \A w \in best : ~CellLess(w, v))

\* Series.fillna(fill_value); filling with NaN changes nothing.
fillna(column, fill_value) ==
    [column EXCEPT !.values =
        [i \in DOMAIN column.values |->
            IF isnull(column.values[i]) THEN fill_value ELSE column.values[i]]]

isnull_any(values) == \E i \in 1..Len(values) : isnull(values[i])

\* Lines 167-178 of src/utils/data_processing.py: the fill value of a strategy.
fill_value_of(values, estrategia, valor_constante) ==
    CASE estrategia = "media" -> mean(values)
      [] estrategia = "mediana" -> median(values)
      [] estrategia = "moda" -> mode0(values)
      [] estrategia = "constante" -> Returned(valor_constante)
      [] OTHER -> Raised("ValueError")

\* Lines 165-180: the loop over the selected columns; the first error ends it.
RECURSIVE fill_columns(_, _, _, _)
fill_columns(t, colunas, estrategia, valor_constante) ==
    IF colunas = <<>> THEN Returned(t)
    ELSE LET col == Head(colunas)
             fv == fill_value_of(t.col[col].values, estrategia, valor_constante)
         IN  IF col \notin Range(t.columns) THEN Raised("KeyError")
             ELSE IF ~isnull_any(t.col[col].values)
             THEN fill_columns(t, Tail(colunas), estrategia, valor_constante)
             ELSE IF fv.status = "raised" THEN fv
             ELSE fill_columns([t EXCEPT !.col[col] = fillna(t.col[col], fv.value)],
                               Tail(colunas), estrategia, valor_constante)

\* colunas=None, written as a list so that it compares with the other lists.
NoColunas == <<None>>

\* df.select_dtypes(include=[np.number]).columns
numeric_columns(t) == select_dtypes(t, {"int64", "float64"})

preencher_valores_numericos(t, colunas, estrategia, valor_constante) ==
    fill_columns(t, IF colunas = NoColunas THEN numeric_columns(t) ELSE colunas,
                 estrategia, valor_constante)

\* Lines 165-172 of uteis/preprocessing.py: the constant is always 0.
fill_value_uteis(values, estrategia) ==
    CASE estrategia = "media" -> mean(values)
      [] estrategia = "mediana" -> median(values)
      [] estrategia = "moda" -> mode0(values)
      [] estrategia = "constante" -> Returned(IntCell(0))
      [] OTHER -> Raised("ValueError")

\* Lines 163-177 of uteis/preprocessing.py: as above, and the message printed
\* after each fill formats the fill value with :.2f, which text does not accept.
RECURSIVE fill_columns_uteis(_, _, _)
fill_columns_uteis(t, colunas, estrategia) ==
    IF colunas = <<>> THEN Returned(t)
    ELSE LET col == Head(colunas)
             fv == fill_value_uteis(t.col[col].values, estrategia)
         IN  IF col \notin Range(t.columns) THEN Raised("KeyError")
             ELSE IF ~isnull_any(t.col[col].values)
             THEN fill_columns_uteis(t, Tail(colunas), estrategia)
             ELSE IF fv.status = "raised" THEN fv
             ELSE IF fv.value.kind = "str" THEN Raised("ValueError")
             ELSE fill_columns_uteis(
                      [t EXCEPT !.col[col] = fillna(t.col[col], fv.value)],
                      Tail(colunas), estrategia)

preencher_valores_numericos_uteis(t, estrategia, colunas) ==
    fill_columns_uteis(t, IF colunas = NoColunas THEN numeric_columns(t) ELSE colunas,
                       estrategia)

Estrategias == {"media", "mediana", "moda", "constante"}

FillTables(rows) ==
    UNION { TablesOver(n, 2,
                ColumnsOf(n, {"int64"}, {1}, {})
                    \cup ColumnsOf(n, {"float64"}, {1, 2}, {})
                    \cup ColumnsOf(n, {"object"}, {}, {<<"x">>}))
            : n \in 0..rows }

FillArgs ==
    [colunas : {NoColunas} \cup {q \in SubSeqsOf(ColumnOrder) : Len(q) <= 2},
     estrategia : Estrategias \cup {"bogus"},
     valor_constante : {IntCell(0), IntCell(7)}]

InitFill ==
    /\ pc = "start"
    /\ df \in FillTables(MaxRows)
    /\ args = Unset
    /\ ret = Unset
    /\ fitted = Unset
    /\ fs = Unset

\* A call of the src/utils implementation.
CallPreencher ==
    /\ pc = "start"
    /\ pc' = "preencher_valores_numericos"
    /\ \E a \in FillArgs :
           /\ args' = a
           /\ ret' = preencher_valores_numericos(df, a.colunas, a.estrategia,
                                                 a.valor_constante)
    /\ UNCHANGED <<df, fitted, fs>>

\* A call of the uteis implementation, which takes no constant.
CallPreencherUteis ==
    /\ pc = "start"
    /\ pc' = "uteis.preencher_valores_numericos"
    /\ \E a \in {x \in FillArgs : x.valor_constante = IntCell(0)} :
           /\ args' = a
           /\ ret' = preencher_valores_numericos_uteis(df, a.estrategia, a.colunas)
    /\ UNCHANGED <<df, fitted, fs>>

NextFill == CallPreencher \/ CallPreencherUteis

SpecFill == InitFill /\ [][NextFill]_vars

Filled == pc \in {"preencher_valores_numericos", "uteis.preencher_valores_numericos"}

\* C4: a call of preencher_valores_numericos with a strategy name outside
\* {media, mediana, moda, constante} raises the invalid-strategy error
\* (ValueError) and never returns a Table, whatever the Table and the column
\* selection are; the caller's Table is as it was.
C4_InvalidStrategyRaises ==
    (Filled /\ args.estrategia \notin Estrategias) =>
        /\ ret.status = "raised"
        /\ ret.error = "ValueError"


(***************************************************************************)
(* create_preprocessor (src/utils/data_processing.py) and the fit and      *)
(* transform of the ColumnTransformer it builds.                           *)
(***************************************************************************)
\* The sentinel category, fill_value='missing' (line 105).
Sentinel == Str(<<"m", "i", "s", "s", "i", "n", "g">>)

\* Mutant of create_preprocessor: the encoder raises on an unknown category.
create_preprocessor_error(numeric_features, categorical_features, numeric_strategy, categorical_strategy, scale_numeric) ==
    [num |-> [columns |-> numeric_features,
              imputer |-> [strategy |-> numeric_strategy, fill_value |-> IntCell(0)],
              scaler |-> scale_numeric],
     cat |-> [columns |-> categorical_features,
              imputer |-> [strategy |-> categorical_strategy, fill_value |-> Sentinel],
              onehot |-> [handle_unknown |-> "error"]],
     remainder |-> "drop"]

\* Lines 94-118: the unfit ColumnTransformer, a description of its two branches.
create_preprocessor(numeric_features, categorical_features, numeric_strategy, categorical_strategy, scale_numeric) ==
    [num |-> [columns |-> numeric_features,
              imputer |-> [strategy |-> numeric_strategy, fill_value |-> IntCell(0)],
              scaler |-> scale_numeric],
     cat |-> [columns |-> categorical_features,
              imputer |-> [strategy |-> categorical_strategy, fill_value |-> Sentinel],
              onehot |-> [handle_unknown |-> "ignore"]],
     remainder |-> "drop"]

\* SimpleImputer.fit on one column: the statistic the strategy learns.  NA
\* stands for a NaN statistic (no observed value); fill_value is read by the
\* constant strategy alone; mean and median refuse a column of dtype object.
SimpleImputer_fit(column, imputer) ==
    LET present == dropna(column.values)
    IN  CASE imputer.strategy = "constant" -> Returned(imputer.fill_value)
          [] imputer.strategy = "most_frequent" ->
                 IF present = <<>> THEN Returned(NA) ELSE mode0(column.values)
          [] imputer.strategy = "mean" ->
                 IF column.dtype = "object" THEN Raised("ValueError")
                 ELSE mean(column.values)
          [] imputer.strategy = "median" ->
                 IF column.dtype = "object" THEN Raised("ValueError")
                 ELSE median(column.values)
          [] OTHER -> Raised("ValueError")

\* SimpleImputer.transform on one column.
SimpleImputer_transform(values, statistic) ==
    [i \in DOMAIN values |-> IF isnull(values[i]) THEN statistic ELSE values[i]]

\* StandardScaler.fit on one imputed column: its mean and population variance.
StandardScaler_fit(values) ==
    LET n == Len(values)
        mu == RatDivInt(RatSum(values), n)
        sq == [i \in 1..n |->
                  LET d == RatSub(Rat(values[i].num, values[i].den), mu)
                      d2 == RatMul(d, d)
                  IN  Num(d2.num, d2.den)]
    IN  [mean |-> mu, var |-> RatDivInt(RatSum(sq), n)]

\* StandardScaler.transform of one value x: (x - mean) / sqrt(var), kept as the
\* pair of its numerator and var; a zero variance scales by 1.
StandardScaler_transform(x, scale) ==
    [centered |-> RatSub(Rat(x.num, x.den), scale.mean),
     var |-> IF scale.var.num = 0 THEN Rat(1, 1) ELSE scale.var]

\* OneHotEncoder.fit on one imputed column: the categories seen.
OneHotEncoder_fit(values) == Range(values)

\* OneHotEncoder.transform of one value: its block of indicator entries.
OneHotEncoder_transform(v, categories, onehot) ==
    IF v \notin categories /\ onehot.handle_unknown = "error"
    THEN Raised("ValueError")
    ELSE Returned([k \in categories |-> IF v = k THEN 1 ELSE 0])

\* The columns a branch lists whose statistic is not NaN: SimpleImputer skips
\* the features without any observed value.
Observed(columns, statistics) ==
    LET seen(c) == ~isnull(statistics[c]) IN Filter(columns, seen)

\* ColumnTransformer.fit(X): what both branches learn from the Table X, or the
\* error of a listed column that X lacks, of a Table without rows, of a
\* strategy the data does not admit, or of a branch left without a feature.
fit(preprocessor, X) ==
    LET num == preprocessor.num
        cat == preprocessor.cat
        listed == Range(num.columns) \cup Range(cat.columns)
        stat(c, imputer) == SimpleImputer_fit(X.col[c], imputer)
        bad == {c \in Range(num.columns) : stat(c, num.imputer).status = "raised"}
                   \cup {c \in Range(cat.columns) : stat(c, cat.imputer).status = "raised"}
        num_stat == [c \in Range(num.columns) |-> stat(c, num.imputer).value]
        cat_stat == [c \in Range(cat.columns) |-> stat(c, cat.imputer).value]
        num_cols == Observed(num.columns, num_stat)
        cat_cols == Observed(cat.columns, cat_stat)
        imputed(c, st) == SimpleImputer_transform(X.col[c].values, st[c])
    IN  IF ~(listed \subseteq Range(X.columns)) THEN Raised("ValueError")
        ELSE IF X.nrows = 0 /\ listed # {} THEN Raised("ValueError")
        ELSE IF bad # {} THEN Raised("ValueError")
        ELSE IF num.columns # <<>> /\ num.scaler /\ num_cols = <<>>
        THEN Raised("ValueError")
        ELSE IF cat.columns # <<>> /\ cat_cols = <<>> THEN Raised("ValueError")
        ELSE Returned(
            [preprocessor |-> preprocessor,
             num_columns |-> num_cols,
             cat_columns |-> cat_cols,
             num_statistics |-> num_stat,
             cat_statistics |-> cat_stat,
             scale |-> [c \in Range(num_cols) |->
                           StandardScaler_fit(imputed(c, num_stat))],
             categories |-> [c \in Range(cat_cols) |->
                                OneHotEncoder_fit(imputed(c, cat_stat))]])

\* ColumnTransformer.transform(X) of a fitted transformer f: per kept numeric
\* column the imputed (and scaled) values, per kept categorical column the
\* one-hot blocks, row by row; the other columns are dropped.
transform(f, X) ==
    LET num == f.preprocessor.num
        cat == f.preprocessor.cat
        listed == Range(num.columns) \cup Range(cat.columns)
        num_imp(c) == SimpleImputer_transform(X.col[c].values, f.num_statistics[c])
        cat_imp(c) == SimpleImputer_transform(X.col[c].values, f.cat_statistics[c])
        block(c, i) == OneHotEncoder_transform(cat_imp(c)[i], f.categories[c],
                                               cat.onehot)
        unknown == \E c \in Range(f.cat_columns) : \E i \in 1..X.nrows :
                       block(c, i).status = "raised"
    IN  IF ~(listed \subseteq Range(X.columns)) THEN Raised("ValueError")
        ELSE IF unknown THEN Raised("ValueError")
        ELSE Returned(
            [num |-> [c \in Range(f.num_columns) |->
                         [i \in 1..X.nrows |->
                             IF num.scaler
                             THEN StandardScaler_transform(num_imp(c)[i], f.scale[c])
                             ELSE [centered |-> Rat(num_imp(c)[i].num, num_imp(c)[i].den),
                                   var |-> Rat(1, 1)]]],
             cat |-> [c \in Range(f.cat_columns) |->
                         [i \in 1..X.nrows |-> block(c, i).value]]])


\* The training Tables: LotArea is a float64 column, Alley a text column.
PipelineColumns(name, n) ==
    IF name = "LotArea" THEN ColumnsOf(n, {"float64"}, {1, 2}, {})
    ELSE ColumnsOf(n, {"object"}, {}, {<<"a">>, <<"x">>})

TablesLike(cols, n) ==
    LET LotArea == PipelineColumns("LotArea", n)
        Alley == PipelineColumns("Alley", n)
        of(name) == IF name = "LotArea" THEN LotArea ELSE Alley
    IN  { MkTable(cols, n, c) :
            c \in { f \in [Range(cols) -> LotArea \cup Alley] :
                      \A name \in Range(cols) : f[name] \in of(name) } }

PipelineTables(rows) ==
    UNION { TablesLike(cols, n) :
              cols \in SubSeqsOf(<<"LotArea", "Alley">>), n \in 0..rows }

PipelineArgs ==
    [numeric_features : {<<>>, <<"LotArea">>},
     categorical_features : {<<>>, <<"Alley">>},
     numeric_strategy : {"median", "mean"},
     categorical_strategy : {"most_frequent", "constant"},
     scale_numeric : BOOLEAN]

InitPipeline ==
    /\ pc = "start"
    /\ df \in PipelineTables(MaxRows)
    /\ args = Unset
    /\ ret = Unset
    /\ fitted = Unset
    /\ fs = Unset

CallCreatePreprocessor ==
    /\ pc = "start"
    /\ pc' = "create_preprocessor"
    /\ \E a \in PipelineArgs :
           /\ args' = a
           /\ fitted' = [preprocessor |->
                            create_preprocessor(a.numeric_features, a.categorical_features,
                                                a.numeric_strategy, a.categorical_strategy,
                                                a.scale_numeric),
                         learned |-> Unset]
    /\ UNCHANGED <<df, ret, fs>>

\* preprocessor.fit(df): the transformer keeps what it learned, or fit raises.
CallFit ==
    /\ pc = "create_preprocessor"
    /\ LET r == fit(fitted.preprocessor, df)
       IN  IF r.status = "raised"
           THEN /\ pc' = "fit raised"
                /\ ret' = r
                /\ UNCHANGED fitted
           ELSE /\ pc' = "fit"
                /\ ret' = Returned(None)
                /\ fitted' = [fitted EXCEPT !.learned = r.value]
    /\ UNCHANGED <<df, args, fs>>

\* preprocessor.transform(X) for a one-row Table X with the training columns.
CallTransform ==
    /\ pc = "fit"
    /\ pc' = "transform"
    /\ \E X \in TablesLike(df.columns, 1) :
           /\ args' = [X |-> X]
           /\ ret' = transform(fitted.learned, X)
    /\ UNCHANGED <<df, fitted, fs>>

NextPipeline == CallCreatePreprocessor \/ CallFit \/ CallTransform

SpecPipeline == InitPipeline /\ [][NextPipeline]_vars

DefaultConfiguration ==
    /\ fitted.preprocessor.num.imputer.strategy = "median"
    /\ fitted.preprocessor.cat.imputer.strategy = "most_frequent"
    /\ fitted.preprocessor.num.scaler

\* C5: with the default configuration the categorical branch replaces every
\* missing categorical value by the sentinel "missing" before encoding, so
\* after fit the vocabulary of a categorical column whose training data has a
\* missing value contains "missing".
C5_SentinelInVocabulary ==
    (pc = "fit" /\ DefaultConfiguration) =>
        \A c \in Range(fitted.preprocessor.cat.columns) :
            (\E i \in 1..df.nrows : df.col[c].values[i] = NA) =>
                /\ c \in DOMAIN fitted.learned.categories
                /\ Sentinel \in fitted.learned.categories[c]

\* The value of the only row of X in column c was not seen in the training data.
Unseen(c) ==
    /\ args.X.col[c].values[1] # NA
    /\ \A i \in 1..df.nrows : df.col[c].values[i] # args.X.col[c].values[1]

\* X with the value of column c replaced by the category k.
WithCategory(X, c, k) == [X EXCEPT !.col[c].values[1] = k]

\* C6: transforming a row whose categorical value was not seen during fit does
\* not raise and yields zeros in the whole one-hot block of that column, and
\* the outputs of the other columns are those of the same row with a known
\* category in its place.
C6_UnknownCategoryAllZero ==
    pc = "transform" =>
        \A c \in Range(fitted.preprocessor.cat.columns) :
            Unseen(c) =>
                /\ ret.status = "returned"
                /\ c \in DOMAIN ret.value.cat
                /\ \A k \in DOMAIN ret.value.cat[c][1] : ret.value.cat[c][1][k] = 0
                /\ \A k \in fitted.learned.categories[c] :
                       LET known == transform(fitted.learned, WithCategory(args.X, c, k))
                       IN  /\ known.status = "returned"
                           /\ known.value.num = ret.value.num
                           /\ \A d \in DOMAIN ret.value.cat \ {c} :
                                  known.value.cat[d] = ret.value.cat[d]
                           /\ known.value.cat[c][1][k] = 1

\* A transform of a row with an unseen Alley value, next to a scaled LotArea.
C6_Witness ==
    /\ pc = "transform"
    /\ fitted.preprocessor.cat.columns = <<"Alley">>
    /\ Unseen("Alley")
    /\ ret.status = "returned"
    /\ "LotArea" \in DOMAIN ret.value.num
    /\ fitted.learned.categories["Alley"] # {}


(***************************************************************************)
(* split_data (src/utils/data_processing.py) and dividir_dados             *)
(* (uteis/preprocessing.py): both are train_test_split.                    *)
(***************************************************************************)
\* A test_size: a Python float num/den or a Python int num.
Float(n, d) == [type |-> "f", num |-> n, den |-> d]
PyInt(n) == [type |-> "i", num |-> n, den |-> 1]

\* math.ceil(num * n / den), for den > 0.
Ceil(num, den) == -((-num) \div den)

\* The permutations of 1..n, as sequences.
Permutations1(n) == {q \in [1..n -> 1..n] : \A i, j \in 1..n : q[i] = q[j] => i = j}

\* _safe_indexing(a, idx): the entries of a at the positions idx, in that order.
take(a, idx) == [k \in 1..Len(idx) |-> a[idx[k]]]

\* Mutant of validate_shuffle_split: the train part is one row short.
validate_shuffle_split_short(n_samples, test_size) ==
    IF \/ test_size.type = "i" /\ (test_size.num >= n_samples \/ test_size.num <= 0)
       \/ test_size.type = "f" /\ (test_size.num <= 0 \/ test_size.num >= test_size.den)
    THEN Raised("ValueError")
    ELSE LET n_test == IF test_size.type = "f"
                       THEN Ceil(test_size.num * n_samples, test_size.den)
                       ELSE test_size.num
             n_train == n_samples - n_test - 1
         IN  IF n_train <= 0 THEN Raised("ValueError")
             ELSE Returned([n_train |-> n_train, n_test |-> n_test])

\* train_test_split's size validation, with train_size=None: a float must lie
\* strictly between 0 and 1, an int in 1..n_samples-1 is a number of rows; the
\* test part has ceil(test_size * n_samples) rows and the train part the rest,
\* which must not be empty.
validate_shuffle_split(n_samples, test_size) ==
    IF \/ test_size.type = "i" /\ (test_size.num >= n_samples \/ test_size.num <= 0)
       \/ test_size.type = "f" /\ (test_size.num <= 0 \/ test_size.num >= test_size.den)
    THEN Raised("ValueError")
    ELSE LET n_test == IF test_size.type = "f"
                       THEN Ceil(test_size.num * n_samples, test_size.den)
                       ELSE test_size.num
             n_train == n_samples - n_test
         IN  IF n_train = 0 THEN Raised("ValueError")
             ELSE Returned([n_train |-> n_train, n_test |-> n_test])

\* ShuffleSplit: the first n_test entries of the permutation are the test rows,
\* the next n_train the train rows.
ShuffleSplit(permutation, n_train, n_test) ==
    [train |-> SubSeq(permutation, n_test + 1, n_test + n_train),
     test |-> SubSeq(permutation, 1, n_test)]

Classes(stratify) == Range(stratify)
ClassRows(stratify, k) == {i \in 1..Len(stratify) : stratify[i] = k}

\* _approximate_mode: the rows drawn from each class are its share rounded
\* down, plus one for the classes with the largest remainders; T is a set of
\* n_draws rows that such a draw can give.
ApproximateMode(stratify, n_draws, T) ==
    LET n == Len(stratify)
        share(k) == Cardinality(ClassRows(stratify, k)) * n_draws
        drawn(k) == Cardinality(T \cap ClassRows(stratify, k))
    IN  /\ Cardinality(T) = n_draws
        /\ \A k \in Classes(stratify) : drawn(k) \in {share(k) \div n, share(k) \div n + 1}
        /\ \A k, l \in Classes(stratify) :
               (drawn(k) = share(k) \div n + 1 /\ drawn(l) = share(l) \div n)
                   => share(k) % n >= share(l) % n

\* StratifiedShuffleSplit: the classes need two rows each and both parts a row
\* per class; the train part draws from every class by _approximate_mode and
\* the test part gets the other rows, both in the order of the permutation.
StratifiedShuffleSplits(permutation, stratify, n_train, n_test) ==
    LET n == Len(stratify)
        small == \E k \in Classes(stratify) : Cardinality(ClassRows(stratify, k)) < 2
        few == n_train < Cardinality(Classes(stratify))
                   \/ n_test < Cardinality(Classes(stratify))
        in_order(S) == LET member(i) == i \in S IN SelectSeq(permutation, member)
    IN  IF small \/ few THEN {Raised("ValueError")}
        ELSE { Returned([train |-> in_order(S), test |-> in_order((1..n) \ S)]) :
                 S \in { T \in SUBSET (1..n) : ApproximateMode(stratify, n_train, T) } }

\* stratify=None, written as a list so that it compares with the label lists.
NoStratify == <<None>>

\* train_test_split(X, y, test_size, random_state, stratify): the results the
\* call can have, one per outcome of the seeded generator that yields the
\* permutation.  X and y of different lengths are refused.
train_test_split(X, y, test_size, permutation, stratify) ==
    LET sizes == validate_shuffle_split(Len(X), test_size)
        parts == IF stratify = NoStratify
                 THEN {Returned(ShuffleSplit(permutation, sizes.value.n_train,
                                             sizes.value.n_test))}
                 ELSE StratifiedShuffleSplits(permutation, stratify,
                                              sizes.value.n_train, sizes.value.n_test)
    IN  IF Len(X) # Len(y) THEN {Raised("ValueError")}
        ELSE IF sizes.status = "raised" THEN {sizes}
        ELSE { IF p.status = "raised" THEN p
               ELSE Returned([X_train |-> take(X, p.value.train),
                              X_test |-> take(X, p.value.test),
                              y_train |-> take(y, p.value.train),
                              y_test |-> take(y, p.value.test)]) : p \in parts }

\* Lines 137-142 of data_processing.py.
split_data(X, y, test_size, permutation, stratify) ==
    train_test_split(X, y, test_size, permutation, stratify)

\* Line 226 of uteis/preprocessing.py: no stratification.
dividir_dados(X, y, tamanho_teste, permutation) ==
    train_test_split(X, y, tamanho_teste, permutation, NoStratify)

TestSizes ==
    {Float(1, 5), Float(1, 2), Float(9, 10), Float(0, 1), Float(1, 1), Float(-1, 2),
     Float(3, 2), PyInt(0), PyInt(1), PyInt(2), PyInt(-1), PyInt(MaxSplitRows)}

\* The rows of X and of y carry their index, as a DataFrame and a Series do.
RowsOf(name, n) == [i \in 1..n |-> [of |-> name, index |-> i - 1]]

SplitLabels(n) == {NoStratify} \cup [1..n -> {"A", "B"}]

InitSplit ==
    /\ pc = "start"
    /\ df \in {[X |-> RowsOf("X", n), y |-> RowsOf("y", m)] :
                 n \in 0..MaxSplitRows, m \in 0..MaxSplitRows}
    /\ args = Unset
    /\ ret = Unset
    /\ fitted = Unset
    /\ fs = Unset

CallSplitData ==
    /\ pc = "start"
    /\ pc' = "split_data"
    /\ \E test_size \in TestSizes, random_state \in Permutations1(Len(df.X)),
          stratify \in SplitLabels(Len(df.X)) :
           /\ args' = [test_size |-> test_size, random_state |-> random_state,
                       stratify |-> stratify]
           /\ ret' \in split_data(df.X, df.y, test_size, random_state, stratify)
    /\ UNCHANGED <<df, fitted, fs>>

CallDividirDados ==
    /\ pc = "start"
    /\ pc' = "dividir_dados"
    /\ \E tamanho_teste \in TestSizes, seed \in Permutations1(Len(df.X)) :
           /\ args' = [test_size |-> tamanho_teste, random_state |-> seed,
                       stratify |-> NoStratify]
           /\ ret' \in dividir_dados(df.X, df.y, tamanho_teste, seed)
    /\ UNCHANGED <<df, fitted, fs>>

NextSplit == CallSplitData \/ CallDividirDados

SpecSplit == InitSplit /\ [][NextSplit]_vars

Split == pc \in {"split_data", "dividir_dados"}
Indices(part) == {part[i].index : i \in 1..Len(part)}
IsFraction(test_size) ==
    test_size.type = "f" /\ 0 < test_size.num /\ test_size.num < test_size.den

Partitioned(r, n) ==
    /\ Indices(r.X_train) \cap Indices(r.X_test) = {}
    /\ Indices(r.X_train) \cup Indices(r.X_test) = {i - 1 : i \in 1..n}
    /\ Len(r.X_train) + Len(r.X_test) = n
    /\ \A i \in 1..Len(r.X_train) :
           r.X_train[i] = df.X[r.X_train[i].index + 1]
               /\ r.y_train[i] = df.y[r.X_train[i].index + 1]
    /\ \A i \in 1..Len(r.X_test) :
           r.X_test[i] = df.X[r.X_test[i].index + 1]
               /\ r.y_test[i] = df.y[r.X_test[i].index + 1]
    /\ Len(r.y_train) = Len(r.X_train) /\ Len(r.y_test) = Len(r.X_test)

\* The test part holds the fraction of the n rows, rounded up to a whole row.
FractionOfRows(r, n, test_size) ==
    /\ Len(r.X_test) * test_size.den >= test_size.num * n
    /\ (Len(r.X_test) - 1) * test_size.den < test_size.num * n

\* C7 as stated: for any X and y of equal row count, any test fraction
\* strictly between 0 and 1 and any seed, split_data / dividir_dados returns
\* parts whose row indices are disjoint and together are every input row
\* exactly once, features and target split by the same indices, the test part
\* holding the fraction of the rows.
C7_SplitAlwaysReturnsPartition ==
    (Split /\ Len(df.X) = Len(df.y) /\ IsFraction(args.test_size)) =>
        /\ ret.status = "returned"
        /\ Partitioned(ret.value, Len(df.X))
        /\ FractionOfRows(ret.value, Len(df.X), args.test_size)

\* C7, amended: whenever split_data / dividir_dados returns, the parts hold
\* disjoint row indices that together are every input row exactly once,
\* features and target are split by the same indices, and for a test
\* fraction the test part holds the fraction of the rows rounded up to a
\* whole row; without stratification a call with equal row counts and a
\* fraction strictly between 0 and 1 returns exactly when that leaves at
\* least one train row, and raises otherwise.
C7_SplitIsPartition ==
    /\ (Split /\ ret.status = "returned") =>
           /\ Partitioned(ret.value, Len(df.X))
           /\ IsFraction(args.test_size) =>
                  FractionOfRows(ret.value, Len(df.X), args.test_size)
    /\ (Split /\ Len(df.X) = Len(df.y) /\ IsFraction(args.test_size)
              /\ args.stratify = NoStratify) =>
           (ret.status = "returned" <=>
               Ceil(args.test_size.num * Len(df.X), args.test_size.den) < Len(df.X))

\* A shuffled split of four rows by the fraction 1/2 that is not in input order.
C7_Witness ==
    /\ Split
    /\ ret.status = "returned"
    /\ Len(df.X) = MaxSplitRows
    /\ args.test_size = Float(1, 2)
    /\ ret.value.X_test[1].index > ret.value.X_train[1].index
    /\ Len(ret.value.X_test) > 1

\* C8: for every test_size that is not strictly between 0 and 1 (0, 1,
\* negative values, values of 1 or more, integer values) the split fails with
\* the invalid-fraction error and returns no partition.
C8_InvalidFractionRaises ==
    (Split /\ ~IsFraction(args.test_size)) =>
        ret.status = "raised" /\ ret.error = "ValueError"

(***************************************************************************)
(* evaluate_model (src/utils/evaluation.py): the regression metrics of     *)
(* sklearn.metrics over two sequences of numbers.                          *)
(***************************************************************************)
MaxSamples == 3

RatDiv(x, y) == Norm(x.num * y.den, x.den * y.num)
RatAbs(x) == Rat(Abs(x.num), x.den)

\* The residuals y_true - y_pred, entry by entry.
Residuals(y_true, y_pred) == [i \in 1..Len(y_true) |-> RatSub(y_true[i], y_pred[i])]
Squares(values) == [i \in 1..Len(values) |-> RatMul(values[i], values[i])]

\* mean_squared_error: mean((y_true - y_pred) ** 2).
mean_squared_error(y_true, y_pred) ==
    RatDivInt(RatSum(Squares(Residuals(y_true, y_pred))), Len(y_true))

\* mean_absolute_error: mean(|y_true - y_pred|).
mean_absolute_error(y_true, y_pred) ==
    LET residuals == Residuals(y_true, y_pred)
    IN  RatDivInt(RatSum([i \in 1..Len(residuals) |-> RatAbs(residuals[i])]),
                  Len(y_true))

\* np.sqrt(mse), kept as the root of its argument.
sqrt(x) == [sqrt_of |-> x]

\* r2_score with its default force_finite=True: fewer than two samples give
\* NaN (with a warning); otherwise 1 - SSres/SStot, and when SStot is zero the
\* score is 1.0 for a perfect prediction and 0.0 for any other.
r2_score(y_true, y_pred) ==
    LET n == Len(y_true)
        numerator == RatSum(Squares(Residuals(y_true, y_pred)))
        average == RatDivInt(RatSum(y_true), n)
        denominator == RatSum(Squares([i \in 1..n |-> RatSub(y_true[i], average)]))
    IN  IF n < 2 THEN NaN
        ELSE IF denominator.num # 0
             THEN RatSub(Rat(1, 1), RatDiv(numerator, denominator))
        ELSE IF numerator.num # 0 THEN Rat(0, 1)
        ELSE Rat(1, 1)

\* Lines 23-43: the four metrics in a dict.  The metric functions refuse
\* sequences of different lengths and empty ones.
evaluate_model(y_true, y_pred) ==
    IF Len(y_true) # Len(y_pred) \/ Len(y_true) = 0 THEN Raised("ValueError")
    ELSE LET mse == mean_squared_error(y_true, y_pred)
             rmse == sqrt(mse)
             mae == mean_absolute_error(y_true, y_pred)
             r2 == r2_score(y_true, y_pred)
         IN  Returned([MSE |-> mse, RMSE |-> rmse, MAE |-> mae, R2 |-> r2])

EvalValues == {Rat(0, 1), Rat(1, 1), Rat(-1, 2)}
EvalSequences(len) == UNION {[1..n -> EvalValues] : n \in 0..len}

InitEval ==
    /\ pc = "start"
    /\ df \in {[y_true |-> t, y_pred |-> p] :
                 t \in EvalSequences(MaxSamples), p \in EvalSequences(MaxSamples)}
    /\ args = Unset
    /\ ret = Unset
    /\ fitted = Unset
    /\ fs = Unset

CallEvaluateModel ==
    /\ pc = "start"
    /\ pc' = "evaluate_model"
    /\ args' = [model_name |-> "Modelo"]
    /\ ret' = evaluate_model(df.y_true, df.y_pred)
    /\ UNCHANGED <<df, fitted, fs>>

NextEval == CallEvaluateModel

SpecEval == InitEval /\ [][NextEval]_vars

Evaluated == pc = "evaluate_model"
ConstantTrue ==
    /\ Len(df.y_true) >= 1
    /\ Len(df.y_true) = Len(df.y_pred)
    /\ \A i, j \in 1..Len(df.y_true) : df.y_true[i] = df.y_true[j]

\* C9: when all true values are equal (SStot = 0), evaluate_model does not
\* raise and the R2 entry of the metrics it returns is NaN, whatever the
\* predictions are.
C9_ConstantTrueGivesNaN ==
    (Evaluated /\ ConstantTrue) =>
        ret.status = "returned" /\ IsNaN(ret.value.R2)

(***************************************************************************)
(* salvar_dados and carregar_dados (uteis/preprocessing.py): a Table is    *)
(* written as the characters of a CSV file by DataFrame.to_csv and read    *)
(* back by pd.read_csv, which infers every column's dtype from the text.   *)
(***************************************************************************)
MaxCsvRows == 2

Comma == ","
Quote == "\""
Newline == "\n"

\* The characters of a column name.
NameText ==
    [LotArea |-> <<"L", "o", "t", "A", "r", "e", "a">>,
     Alley |-> <<"A", "l", "l", "e", "y">>,
     SalePrice |-> <<"S", "a", "l", "e", "P", "r", "i", "c", "e">>]

DigitChars == <<"0", "1", "2", "3", "4", "5", "6", "7", "8", "9">>
IsDigit(c) == \E d \in 1..10 : DigitChars[d] = c
DigitValue(c) == (CHOOSE d \in 1..10 : DigitChars[d] = c) - 1

\* str(n) of an int.
RECURSIVE str_nat(_)
str_nat(n) ==
    IF n < 10 THEN <<DigitChars[n + 1]>>
    ELSE str_nat(n \div 10) \o <<DigitChars[(n % 10) + 1]>>
str_int(n) == IF n < 0 THEN <<"-">> \o str_nat(-n) ELSE str_nat(n)

\* Mutant of repr_float: a whole float is written without its ".0".
repr_float_g(x) ==
    (IF x.num < 0 THEN <<"-">> ELSE <<>>)
        \o str_nat(Abs(x.num) \div x.den)
        \o (IF x.den = 1 THEN <<>> ELSE <<".", "5">>)

\* repr(x) of a float that is a whole number or a whole number and a half,
\* as to_csv writes it: "1.0", "-1.5".
repr_float(x) ==
    (IF x.num < 0 THEN <<"-">> ELSE <<>>)
        \o str_nat(Abs(x.num) \div x.den)
        \o (IF x.den = 1 THEN <<".", "0">> ELSE <<".", "5">>)

\* The text to_csv writes for a cell: nothing for a missing entry (na_rep='').
format_cell(cell, dtype) ==
    IF isnull(cell) THEN <<>>
    ELSE IF cell.kind = "str" THEN cell.s
    ELSE IF cell.kind = "bool" THEN (IF cell.num = 1 THEN <<"T", "r", "u", "e">>
                                     ELSE <<"F", "a", "l", "s", "e">>)
    ELSE IF dtype = "int64" THEN str_int(cell.num)
    ELSE repr_float(cell)

RECURSIVE DoubleQuotes(_)
DoubleQuotes(field) ==
    IF field = <<>> THEN <<>>
    ELSE (IF Head(field) = Quote THEN <<Quote, Quote>> ELSE <<Head(field)>>)
             \o DoubleQuotes(Tail(field))

\* csv.QUOTE_MINIMAL: a field holding the delimiter, the quote character or a
\* line break is written between quotes, its quotes doubled.
quote_minimal(field) ==
    IF \E i \in 1..Len(field) : field[i] \in {Comma, Quote, Newline}
    THEN <<Quote>> \o DoubleQuotes(field) \o <<Quote>>
    ELSE field

RECURSIVE Join(_)
Join(fields) ==
    IF fields = <<>> THEN <<>>
    ELSE IF Len(fields) = 1 THEN Head(fields)
    ELSE Head(fields) \o <<Comma>> \o Join(Tail(fields))

\* csv.writer.writerow: the fields joined by commas and a line break; a row
\* that is one empty field is written as "" so that the line is not blank.
writerow(fields) ==
    IF Len(fields) = 1 /\ fields[1] = <<>> THEN <<Quote, Quote, Newline>>
    ELSE Join([j \in 1..Len(fields) |-> quote_minimal(fields[j])]) \o <<Newline>>

RECURSIVE Flatten(_)
Flatten(lines) == IF lines = <<>> THEN <<>> ELSE Head(lines) \o Flatten(Tail(lines))

\* df.to_csv(path, index=False): the header line, then a line per row.
to_csv(t) ==
    LET header == [j \in 1..Len(t.columns) |-> NameText[t.columns[j]]]
        row(i) == [j \in 1..Len(t.columns) |->
                     format_cell(t.col[t.columns[j]].values[i],
                                 t.col[t.columns[j]].dtype)]
    IN  writerow(header) \o Flatten([i \in 1..t.nrows |-> writerow(row(i))])

\* The tokenizer of read_csv: fields end at a comma, lines at a line break; a
\* field that starts with a quote runs to its closing quote, a doubled quote
\* inside it being one quote; blank lines are skipped (skip_blank_lines).
RECURSIVE Tokenize(_, _, _, _, _)
Tokenize(chars, state, field, row, rows) ==
    IF chars = <<>>
    THEN [rows |-> IF state = "START_FIELD" /\ row = <<>> THEN rows
                   ELSE Append(rows, Append(row, field)),
          eof_in_quote |-> state = "IN_QUOTED_FIELD"]
    ELSE LET c == Head(chars)
             rest == Tail(chars)
         IN  CASE state = "START_FIELD" ->
                    IF c = Newline
                    THEN Tokenize(rest, "START_FIELD", <<>>, <<>>,
                                  IF row = <<>> THEN rows
                                  ELSE Append(rows, Append(row, <<>>)))
                    ELSE IF c = Comma
                    THEN Tokenize(rest, "START_FIELD", <<>>, Append(row, <<>>), rows)
                    ELSE IF c = Quote
                    THEN Tokenize(rest, "IN_QUOTED_FIELD", <<>>, row, rows)
                    ELSE Tokenize(rest, "IN_FIELD", <<c>>, row, rows)
               [] state = "IN_FIELD" ->
                    IF c = Newline
                    THEN Tokenize(rest, "START_FIELD", <<>>, <<>>,
                                  Append(rows, Append(row, field)))
                    ELSE IF c = Comma
                    THEN Tokenize(rest, "START_FIELD", <<>>, Append(row, field), rows)
                    ELSE Tokenize(rest, "IN_FIELD", Append(field, c), row, rows)
               [] state = "IN_QUOTED_FIELD" ->
                    IF c = Quote
                    THEN Tokenize(rest, "QUOTE_IN_QUOTED_FIELD", field, row, rows)
                    ELSE Tokenize(rest, "IN_QUOTED_FIELD", Append(field, c), row, rows)
               [] OTHER ->
                    IF c = Quote
                    THEN Tokenize(rest, "IN_QUOTED_FIELD", Append(field, c), row, rows)
                    ELSE IF c = Newline
                    THEN Tokenize(rest, "START_FIELD", <<>>, <<>>,
                                  Append(rows, Append(row, field)))
                    ELSE IF c = Comma
                    THEN Tokenize(rest, "START_FIELD", <<>>, Append(row, field), rows)
                    ELSE Tokenize(rest, "IN_FIELD", Append(field, c), row, rows)

\* The texts read_csv takes for a missing entry: the empty field and the
\* default na_values.
NaValues ==
    {<<>>,
     <<"N", "A">>,
     <<"N", "a", "N">>,
     <<"n", "a", "n">>,
     <<"n", "u", "l", "l">>,
     <<"N", "U", "L", "L">>,
     <<"N", "o", "n", "e">>,
     <<"N", "/", "A">>,
     <<"n", "/", "a">>,
     <<"#", "N", "/", "A">>,
     <<"#", "N", "A">>,
     <<"<", "N", "A", ">">>,
     <<"-", "N", "a", "N">>,
     <<"-", "n", "a", "n">>,
     <<"1", ".", "#", "I", "N", "D">>,
     <<"1", ".", "#", "Q", "N", "A", "N">>,
     <<"-", "1", ".", "#", "I", "N", "D">>,
     <<"-", "1", ".", "#", "Q", "N", "A", "N">>,
     <<"#", "N", "/", "A", " ", "N", "/", "A">>}

TrueValues == {<<"T", "r", "u", "e">>, <<"T", "R", "U", "E">>, <<"t", "r", "u", "e">>}
FalseValues == {<<"F", "a", "l", "s", "e">>, <<"F", "A", "L", "S", "E">>, <<"f", "a", "l", "s", "e">>}

Unsigned(text) ==
    IF text # <<>> /\ Head(text) \in {"-", "+"} THEN Tail(text) ELSE text
AllDigits(text) == \A i \in 1..Len(text) : IsDigit(text[i])

\* The text of an int: an optional sign and one digit or more.
IsIntText(text) == Unsigned(text) # <<>> /\ AllDigits(Unsigned(text))

\* The text of a float in decimal notation: an optional sign and digits with
\* at most one point among them.
IsFloatText(text) ==
    LET body == Unsigned(text)
        points == {i \in 1..Len(body) : body[i] = "."}
        digits == {i \in 1..Len(body) : IsDigit(body[i])}
    IN  /\ digits # {}
        /\ Cardinality(points) <= 1
        /\ points \cup digits = 1..Len(body)

RECURSIVE ParseNat(_)
ParseNat(digits) ==
    IF digits = <<>> THEN 0
    ELSE ParseNat(SubSeq(digits, 1, Len(digits) - 1)) * 10
             + DigitValue(digits[Len(digits)])

RECURSIVE Pow10(_)
Pow10(k) == IF k = 0 THEN 1 ELSE 10 * Pow10(k - 1)

ParseFloat(text) ==
    LET body == Unsigned(text)
        digits == SelectSeq(body, IsDigit)
        point == IF \E i \in 1..Len(body) : body[i] = "."
                 THEN CHOOSE i \in 1..Len(body) : body[i] = "."
                 ELSE Len(body) + 1
        sign == IF text # <<>> /\ Head(text) = "-" THEN -1 ELSE 1
    IN  Norm(sign * ParseNat(digits), Pow10(Len(body) + 1 - point
                                              - (IF point <= Len(body) THEN 1 ELSE 0)))

\* The dtype and the cells read_csv gives a column from the texts of its
\* fields: int64 when every field is an int, float64 when every field is a
\* number or missing, bool when every field is a truth value, object (the
\* texts themselves) otherwise; a column without rows is object.
infer_column(texts) ==
    LET present == SelectSeq(texts, LAMBDA text : text \notin NaValues)
        all(P(_)) == \A i \in 1..Len(present) : P(present[i])
        IsBoolText(text) == text \in TrueValues \cup FalseValues
        n == Len(texts)
    IN  IF n = 0 THEN [dtype |-> "object", values |-> <<>>]
        ELSE IF Len(present) = n /\ all(IsIntText)
        THEN [dtype |-> "int64",
              values |-> [i \in 1..n |-> IntCell(ParseFloat(texts[i]).num)]]
        ELSE IF all(IsFloatText)
        THEN [dtype |-> "float64",
              values |-> [i \in 1..n |->
                            IF texts[i] \in NaValues THEN NA
                            ELSE LET x == ParseFloat(texts[i]) IN Num(x.num, x.den)]]
        ELSE IF all(IsBoolText)
        THEN [dtype |-> IF Len(present) = n THEN "bool" ELSE "object",
              values |-> [i \in 1..n |->
                            IF texts[i] \in NaValues THEN NA
                            ELSE Bool(texts[i] \in TrueValues)]]
        ELSE [dtype |-> "object",
              values |-> [i \in 1..n |->
                            IF texts[i] \in NaValues THEN NA ELSE Str(texts[i])]]

\* The column a header field names.
ColumnNamed(text) ==
    IF \E name \in ColNames : NameText[name] = text
    THEN CHOOSE name \in ColNames : NameText[name] = text
    ELSE "Unnamed"

\* pd.read_csv(path) on the characters of a file: the first line that is not
\* blank is the header; a file without one has no columns to parse; a short
\* row is filled with missing entries and a row longer than the header is
\* refused.
read_csv(content) ==
    LET tokens == Tokenize(content, "START_FIELD", <<>>, <<>>, <<>>)
        header == Head(tokens.rows)
        data == Tail(tokens.rows)
        names == [j \in 1..Len(header) |-> ColumnNamed(header[j])]
        texts(j) == [i \in 1..Len(data) |->
                       IF j <= Len(data[i]) THEN data[i][j] ELSE <<>>]
        position(name) == CHOOSE j \in 1..Len(names) : names[j] = name
    IN  IF tokens.eof_in_quote THEN Raised("ParserError")
        ELSE IF tokens.rows = <<>> THEN Raised("EmptyDataError")
        ELSE IF \E i \in 1..Len(data) : Len(data[i]) > Len(header)
        THEN Raised("ParserError")
        ELSE Returned(MkTable(names, Len(data),
                              [name \in Range(names) |->
                                 infer_column(texts(position(name)))]))

\* A path: os.path.dirname(path) and the file name.
Path(dir, name) == [dir |-> dir, name |-> name]
dirname(path) == path.dir
CsvPaths == {Path("out", "data.csv"), Path("", "data.csv")}

\* The file system: the directories made, the files written and their
\* characters.
EmptyFs == [dirs |-> {}, files |-> {}, content |-> [path \in CsvPaths |-> <<>>]]

\* Lines 238-245: os.makedirs of the directory part, which refuses the empty
\* name of a bare file name, then to_csv; the exception is printed and raised
\* again.
salvar_dados(files, t, caminho_arquivo) ==
    IF dirname(caminho_arquivo) = ""
    THEN [fs |-> files, ret |-> Raised("FileNotFoundError")]
    ELSE [fs |-> [dirs |-> files.dirs \cup {dirname(caminho_arquivo)},
                  files |-> files.files \cup {caminho_arquivo},
                  content |-> [files.content EXCEPT ![caminho_arquivo] = to_csv(t)]],
          ret |-> Returned(None)]

\* Lines 23-27: read_csv, its exception printed and raised again.
carregar_dados(files, caminho_arquivo) ==
    IF caminho_arquivo \notin files.files THEN Raised("FileNotFoundError")
    ELSE read_csv(files.content[caminho_arquivo])

CsvTexts == {<<"a">>, <<"x", Comma, "y">>, <<"1">>, <<"N", "A">>, <<>>, <<Quote, "q">>}

\* LotArea is a column of ints or of floats, Alley a column of text.
CsvColumns(name, n) ==
    IF name = "LotArea"
    THEN {[dtype |-> "int64", values |-> v] : v \in [1..n -> {IntCell(-1), IntCell(2)}]}
         \cup {[dtype |-> "float64", values |-> v] :
                 v \in [1..n -> {NA, Num(-3, 2), Num(1, 1)}]}
    ELSE {[dtype |-> "object", values |-> v] :
            v \in [1..n -> {NA} \cup {Str(text) : text \in CsvTexts}]}

CsvTablesLike(cols, n) ==
    LET LotArea == CsvColumns("LotArea", n)
        Alley == CsvColumns("Alley", n)
        of(name) == IF name = "LotArea" THEN LotArea ELSE Alley
    IN  { MkTable(cols, n, c) :
            c \in { f \in [Range(cols) -> LotArea \cup Alley] :
                      \A name \in Range(cols) : f[name] \in of(name) } }

CsvTables(rows) ==
    UNION { CsvTablesLike(cols, n) :
              cols \in SubSeqsOf(<<"LotArea", "Alley">>), n \in 0..rows }

InitCsv ==
    /\ pc = "start"
    /\ df \in CsvTables(MaxCsvRows)
    /\ args = Unset
    /\ ret = Unset
    /\ fitted = Unset
    /\ fs = EmptyFs

CallSalvarDados ==
    /\ pc = "start"
    /\ \E caminho_arquivo \in CsvPaths :
           LET r == salvar_dados(fs, df, caminho_arquivo)
           IN  /\ args' = [caminho_arquivo |-> caminho_arquivo]
               /\ fs' = r.fs
               /\ ret' = r.ret
               /\ pc' = IF r.ret.status = "raised" THEN "salvar_dados raised"
                        ELSE "salvar_dados"
    /\ UNCHANGED <<df, fitted>>

CallCarregarDados ==
    /\ pc \in {"salvar_dados", "salvar_dados raised"}
    /\ pc' = "carregar_dados"
    /\ \E caminho_arquivo \in CsvPaths :
           /\ args' = [caminho_arquivo |-> caminho_arquivo]
           /\ ret' = carregar_dados(fs, caminho_arquivo)
    /\ UNCHANGED <<df, fitted, fs>>

NextCsv == CallSalvarDados \/ CallCarregarDados

SpecCsv == InitCsv /\ [][NextCsv]_vars

\* The written file has been loaded.
RoundTrip == pc = "carregar_dados" /\ args.caminho_arquivo \in fs.files
Identical == ret.status = "returned" /\ ret.value = df

Texts(column) ==
    {column.values[i].s : i \in {k \in 1..Len(column.values) :
                                   column.values[k].kind = "str"}}

\* A column that read_csv types as it was: a numeric column has a row; a text
\* column holds no text that reads as a missing entry and, when it has rows,
\* holds a text that is neither a number nor a truth value.
ReadsBackAsTyped(column) ==
    IF column.dtype \in {"int64", "float64"} THEN Len(column.values) >= 1
    ELSE /\ column.dtype = "object"
         /\ Texts(column) \cap NaValues = {}
         /\ Len(column.values) >= 1 =>
                /\ \E text \in Texts(column) : ~IsFloatText(text)
                /\ \E text \in Texts(column) : text \notin TrueValues \cup FalseValues

Faithful(t) ==
    /\ t.columns # <<>>
    /\ \A name \in Range(t.columns) : ReadsBackAsTyped(t.col[name])

Saved == pc \in {"salvar_dados", "salvar_dados raised"}

\* The file at the path starts with the header line of the Table.
HeaderWritten(path) ==
    LET header == writerow([j \in 1..Len(df.columns) |-> NameText[df.columns[j]]])
    IN  /\ path \in fs.files
        /\ Len(fs.content[path]) >= Len(header)
        /\ SubSeq(fs.content[path], 1, Len(header)) = header

\* C11: for every writable destination path (a path with a directory part, or
\* a bare file name without one), salvar_dados does not raise, the parent
\* directory exists afterwards and the file holds the CSV with its header.
C11_SavesToEveryWritablePath ==
    Saved =>
        /\ ret.status = "returned"
        /\ dirname(args.caminho_arquivo) # "" =>
               dirname(args.caminho_arquivo) \in fs.dirs
        /\ HeaderWritten(args.caminho_arquivo)

(***************************************************************************)
(* analisar_valores_ausentes (src/utils/eda.py, uteis/preprocessing.py):   *)
(* the report of the columns with missing entries, and what is displayed.  *)
(***************************************************************************)
\* (df.isnull().sum() / df.shape[0] * 100)[c]: 0/0 is NaN on a Table without rows.
percent(t, c) ==
    IF t.nrows = 0 THEN NaN ELSE Norm(isnull_sum(t, c) * 100, t.nrows)

\* The orders of the names in `names` (a sequence without repetition).
Orders(names) ==
    {q \in [1..Len(names) -> Range(names)] :
       \A i, j \in 1..Len(names) : q[i] = q[j] => i = j}

\* sort_values(ascending=False): the orders by non-increasing key, NaN last;
\* the order among equal keys is the sorting routine's.
sort_values_descending(names, key(_)) ==
    LET k == [c \in Range(names) |-> key(c)]
    IN  {q \in Orders(names) :
           \A i, j \in 1..Len(q) :
              i < j => /\ IsNaN(k[q[i]]) => IsNaN(k[q[j]])
                       /\ ~RatLess(k[q[i]], k[q[j]])}

\* Mutant of with_missing: every column stays in the report.
with_missing_all(rows) ==
    LET keep(row) == row.Total >= 0 IN SelectSeq(rows, keep)

\* missing_data[missing_data['Total'] > 0]
with_missing(rows) ==
    LET keep(row) == row.Total > 0 IN SelectSeq(rows, keep)

\* Lines 57-65 of eda.py / 72-76 of uteis/preprocessing.py: the counts and the
\* percentages side by side, sorted by percentage, the columns without a
\* missing entry left out.
missing_data(t) ==
    LET pct(c) == percent(t, c)
        row == [c \in Range(t.columns) |->
                  [column |-> c, Total |-> isnull_sum(t, c), Porcentagem |-> pct(c)]]
    IN  { with_missing([i \in 1..Len(q) |-> row[q[i]]]) :
            q \in sort_values_descending(t.columns, pct) }

\* What the function shows for a report: the columns it recommends to remove
\* and the columns of the bar plot.
Rendering(report, limite_porcentagem, plotar_grafico, limite_grafico) ==
    LET above(limit) ==
            LET keep(row) == RatLess(limit, row.Porcentagem)
            IN  SelectSeq(report, keep)
    IN  [colunas_para_remover |-> above(limite_porcentagem),
         missing_gt_limit |-> IF plotar_grafico THEN above(limite_grafico) ELSE <<>>]

NothingDisplayed == [colunas_para_remover |-> <<>>, missing_gt_limit |-> <<>>]

\* The outcomes of a call, one per order the sort can give.  The share of the
\* columns with missing entries divides by the number of columns; display() is
\* a name only an IPython session defines, and is called for a report that is
\* not empty.
analisar_valores_ausentes(t, limite_porcentagem, plotar_grafico, limite_grafico, ipython) ==
    IF Len(t.columns) = 0
    THEN {[ret |-> Raised("ZeroDivisionError"), display |-> NothingDisplayed]}
    ELSE { IF report = <<>> THEN [ret |-> Returned(report), display |-> NothingDisplayed]
           ELSE IF ~ipython THEN [ret |-> Raised("NameError"), display |-> NothingDisplayed]
           ELSE [ret |-> Returned(report),
                 display |-> Rendering(report, limite_porcentagem, plotar_grafico,
                                       limite_grafico)]
           : report \in missing_data(t) }

\* uteis/preprocessing.py lines 53-143: the same computation.
analisar_valores_ausentes_uteis(t, limite_porcentagem, plotar_grafico, limite_grafico, ipython) ==
    analisar_valores_ausentes(t, limite_porcentagem, plotar_grafico, limite_grafico, ipython)

\* isnull() does not look at the dtype of a column: a column type that holds
\* no missing entry and one that does are the two kinds there are.
AnalisarTables(rows, cols) ==
    UNION { TablesOver(n, cols, ColumnsOf(n, {"int64", "float64"}, {1}, {<<"x">>}))
            : n \in 0..rows }

AnalisarArgs ==
    [limite_porcentagem : {Rat(30, 1), Rat(100, 1)},
     plotar_grafico : BOOLEAN,
     limite_grafico : {Rat(5, 1), Rat(60, 1)},
     ipython : BOOLEAN]

InitAnalisar ==
    /\ pc = "start"
    /\ df \in AnalisarTables(MaxRows, MaxCols)
    /\ args = Unset
    /\ ret = Unset
    /\ fitted = Unset
    /\ fs = Unset

CallAnalisarValoresAusentes ==
    /\ pc = "start"
    /\ pc' = "analisar_valores_ausentes"
    /\ \E a \in AnalisarArgs :
           \E r \in analisar_valores_ausentes(df, a.limite_porcentagem, a.plotar_grafico,
                                              a.limite_grafico, a.ipython) :
               /\ args' = a
               /\ ret' = r.ret
               /\ fs' = r.display
    /\ UNCHANGED <<df, fitted>>

CallAnalisarValoresAusentesUteis ==
    /\ pc = "start"
    /\ pc' = "uteis.analisar_valores_ausentes"
    /\ \E a \in AnalisarArgs :
           \E r \in analisar_valores_ausentes_uteis(df, a.limite_porcentagem,
                                                    a.plotar_grafico, a.limite_grafico,
                                                    a.ipython) :
               /\ args' = a
               /\ ret' = r.ret
               /\ fs' = r.display
    /\ UNCHANGED <<df, fitted>>

NextAnalisar == CallAnalisarValoresAusentes \/ CallAnalisarValoresAusentesUteis

SpecAnalisar == InitAnalisar /\ [][NextAnalisar]_vars

Analisado == pc \in {"analisar_valores_ausentes", "uteis.analisar_valores_ausentes"}

\* The reports a call with these arguments can return.
ReportsOf(a) ==
    LET outcomes == IF pc = "analisar_valores_ausentes"
                    THEN analisar_valores_ausentes(df, a.limite_porcentagem,
                             a.plotar_grafico, a.limite_grafico, a.ipython)
                    ELSE analisar_valores_ausentes_uteis(df, a.limite_porcentagem,
                             a.plotar_grafico, a.limite_grafico, a.ipython)
    IN  {r.ret.value : r \in {o \in outcomes : o.ret.status = "returned"}}

\* The call with the default arguments of the signature, against which the
\* calls with every other combination are compared.
DefaultLimits(a) ==
    /\ a.limite_porcentagem = Rat(30, 1)
    /\ a.plotar_grafico
    /\ a.limite_grafico = Rat(5, 1)

\* C12: the report analisar_valores_ausentes returns holds exactly the columns
\* of the Table with at least one missing entry, once each, with the count
\* and the percentage count / rows x 100 of their missing entries, in order
\* of non-increasing percentage; and the reports a call can return are the
\* same for every limite_porcentagem, plotar_grafico and limite_grafico.
C12_ReportOfMissingColumns ==
    (Analisado /\ ret.status = "returned") =>
        LET report == ret.value
        IN  /\ {report[i].column : i \in 1..Len(report)}
                   = {c \in Range(df.columns) : isnull_sum(df, c) > 0}
            /\ \A i, j \in 1..Len(report) : report[i].column = report[j].column => i = j
            /\ \A i \in 1..Len(report) :
                   /\ report[i].Total = isnull_sum(df, report[i].column)
                   /\ report[i].Porcentagem.num * df.nrows
                          = report[i].Total * 100 * report[i].Porcentagem.den
                   /\ report[i].Porcentagem.den > 0
            /\ \A i, j \in 1..Len(report) :
                   i < j => RatLeq(report[j].Porcentagem, report[i].Porcentagem)
            /\ DefaultLimits(args) =>
                   LET mine == ReportsOf(args)
                   IN  \A a \in AnalisarArgs :
                          a.ipython = args.ipython => ReportsOf(a) = mine

\* A report of two columns in which the column with the larger share of
\* missing entries comes first although it is the later column of the Table,
\* with a recommendation displayed.
C12_Witness ==
    /\ Analisado
    /\ ret.status = "returned"
    /\ Len(ret.value) = 2
    /\ RatLess(ret.value[2].Porcentagem, ret.value[1].Porcentagem)
    /\ df.columns[1] = ret.value[2].column
    /\ fs.colunas_para_remover # <<>>

(***************************************************************************)
(* converter_categorias (src/utils/data_processing.py)                     *)
(***************************************************************************)
\* The values of a column without repetition, in sorted order.
RECURSIVE Uniq(_)
Uniq(sorted) ==
    IF Len(sorted) <= 1 THEN sorted
    ELSE IF sorted[1] = sorted[2] THEN Uniq(Tail(sorted))
    ELSE <<Head(sorted)>> \o Uniq(Tail(sorted))

categories(values) == Uniq(sort_values(dropna(values)))

\* The name get_dummies gives the indicator column of a category: the column
\* name, "_" and the category.
DummyName(col, category) ==
    CASE col = "Alley" /\ category = Str(<<"a">>) -> "Alley_a"
      [] col = "Alley" /\ category = Str(<<"x">>) -> "Alley_x"
      [] OTHER -> "Alley_other"

\* pd.get_dummies(df, columns=colunas, drop_first=drop_first): the columns
\* that are not encoded, then for each encoded column one indicator column
\* per category (all but the first with drop_first); a missing entry has no
\* indicator.  A listed column must exist, and a Table without columns gives
\* nothing to concatenate.
get_dummies(t, colunas, drop_first) ==
    LET kept == LET keep(c) == c \notin Range(colunas) IN Filter(t.columns, keep)
        levels(c) == LET all == categories(t.col[c].values)
                     IN  IF drop_first /\ all # <<>> THEN Tail(all) ELSE all
        dummies(c) == [k \in 1..Len(levels(c)) |-> [from |-> c, level |-> levels(c)[k]]]
        RECURSIVE Encoded(_)
        Encoded(cols) == IF cols = <<>> THEN <<>>
                         ELSE dummies(Head(cols)) \o Encoded(Tail(cols))
        encoded == Encoded(colunas)
        names == kept \o [k \in 1..Len(encoded) |->
                            DummyName(encoded[k].from, encoded[k].level)]
        source(name) ==
            IF name \in Range(kept) THEN t.col[name]
            ELSE LET d == encoded[CHOOSE k \in 1..Len(encoded) :
                                 DummyName(encoded[k].from, encoded[k].level) = name]
                 IN  [dtype |-> "bool",
                      values |-> [i \in 1..t.nrows |->
                                    Bool(t.col[d.from].values[i] = d.level)]]
    IN  IF \E c \in Range(colunas) : c \notin Range(t.columns) THEN Raised("KeyError")
        ELSE IF t.columns = <<>> THEN Raised("ValueError")
        ELSE Returned(MkTable(names, t.nrows, [name \in Range(names) |-> source(name)]))

\* df[col].astype(str): the text of each entry, "nan" for a missing one.
astype_str(cell) == IF isnull(cell) THEN Str(<<"n", "a", "n">>) ELSE cell

\* LabelEncoder().fit_transform(values): the position of each value among the
\* sorted distinct values, from 0.
LabelEncoder_fit_transform(values) ==
    LET classes_ == Uniq(sort_values(values))
    IN  [dtype |-> "int64",
         values |-> [i \in 1..Len(values) |->
                       IntCell((CHOOSE k \in 1..Len(classes_) : classes_[k] = values[i]) - 1)]]

\* Lines 208-210: the loop of the label method; a column that does not exist
\* ends it with KeyError.
RECURSIVE label_columns(_, _)
label_columns(t, colunas) ==
    IF colunas = <<>> THEN Returned(t)
    ELSE LET col == Head(colunas)
             texts == [i \in 1..t.nrows |-> astype_str(t.col[col].values[i])]
         IN  IF col \notin Range(t.columns) THEN Raised("KeyError")
             ELSE label_columns([t EXCEPT !.col[col] = LabelEncoder_fit_transform(texts)],
                                Tail(colunas))

\* df.select_dtypes(include=['object', 'category']).columns.tolist()
categorical_columns(t) == select_dtypes(t, {"object", "category"})

\* Lines 200-214: the Table converter_categorias returns, or what it raises.
converter_categorias(t, colunas, metodo, drop_first) ==
    LET cols == IF colunas = NoColunas THEN categorical_columns(t) ELSE colunas
    IN  CASE metodo = "onehot" -> get_dummies(t, cols, drop_first)
          [] metodo = "label" -> label_columns(t, cols)
          [] OTHER -> Raised("ValueError")

(***************************************************************************)
(* The objects of a call.  The caller's Table is object 1; the name df of  *)
(* the callee is bound to an object, `df = ...` binds it to a new one and  *)
(* `df[col] = ...` writes into the object it is bound to.                  *)
(***************************************************************************)
Enter(t) == [objects |-> <<t>>, df |-> 1]
deref(h) == h.objects[h.df]

\* df = <a new Table>
bind(h, t) == [objects |-> Append(h.objects, t), df |-> Len(h.objects) + 1]

\* df[col] = ... for the columns that make the object df is bound to equal t.
setitem(h, t) == [h EXCEPT !.objects[h.df] = t]

\* Mutant of df_copy: no copy is made, df stays bound to the caller's Table.
df_copy_none(h) == h

\* df = df.copy()
df_copy(h) == bind(h, deref(h))

\* The Table a loop that ends with an error has reached: the columns before
\* the failing one are done.
LoopReached(t, colunas, loop(_, _)) ==
    LET done == {k \in 0..Len(colunas) : loop(t, SubSeq(colunas, 1, k)).status = "returned"}
        last == CHOOSE k \in done : \A l \in done : l <= k
    IN  loop(t, SubSeq(colunas, 1, last)).value

\* preprocess_data, lines 51-73: the copy, then df = df.drop(...).
preprocess_data_objects(t, a) ==
    LET h == df_copy(Enter(t))
        r == preprocess_data(deref(h), a.target_column, a.drop_high_missing,
                             a.missing_threshold)
    IN  [objects |-> IF a.drop_high_missing THEN bind(h, r.df) ELSE h,
         ret |-> Returned(r)]

\* preencher_valores_numericos, lines 160-182: the copy, then df[col] = ... for
\* each selected column with a missing entry.
preencher_valores_numericos_objects(t, a) ==
    LET h == df_copy(Enter(t))
        colunas == IF a.colunas = NoColunas THEN numeric_columns(deref(h)) ELSE a.colunas
        loop(x, cols) == fill_columns(x, cols, a.estrategia, a.valor_constante)
        r == loop(deref(h), colunas)
    IN  [objects |-> setitem(h, IF r.status = "returned" THEN r.value
                                ELSE LoopReached(deref(h), colunas, loop)),
         ret |-> r]

\* converter_categorias, lines 200-214: the copy, then df = pd.get_dummies(...)
\* or df[col] = ... for each selected column.
converter_categorias_objects(t, a) ==
    LET h == df_copy(Enter(t))
        colunas == IF a.colunas = NoColunas THEN categorical_columns(deref(h)) ELSE a.colunas
        r == converter_categorias(deref(h), a.colunas, a.metodo, a.drop_first)
    IN  [objects |->
             CASE a.metodo = "onehot" ->
                    IF r.status = "returned" THEN bind(h, r.value) ELSE h
               [] a.metodo = "label" ->
                    setitem(h, IF r.status = "returned" THEN r.value
                               ELSE LoopReached(deref(h), colunas, label_columns))
               [] OTHER -> h,
         ret |-> r]

ConverterArgs ==
    [colunas : {NoColunas, <<>>, <<"Alley">>, <<"SalePrice">>, <<"Alley", "SalePrice">>},
     metodo : {"onehot", "label", "bogus"},
     drop_first : BOOLEAN]

InitObjects ==
    /\ pc = "start"
    /\ df \in PipelineTables(MaxRows)
    /\ args = Unset
    /\ ret = Unset
    /\ fitted = Unset
    /\ fs = Unset

\* Each call leaves the caller's Table as object 1 is at its end, and the
\* objects of the call in `fitted`.
CallPreprocessObjects ==
    /\ pc = "start"
    /\ pc' = "preprocess_data"
    /\ \E a \in PreprocessArgs :
           LET r == preprocess_data_objects(df, a)
           IN  /\ args' = a
               /\ ret' = r.ret
               /\ df' = r.objects.objects[1]
               /\ fitted' = r.objects
    /\ UNCHANGED fs

CallPreencherObjects ==
    /\ pc = "start"
    /\ pc' = "preencher_valores_numericos"
    /\ \E a \in FillArgs :
           LET r == preencher_valores_numericos_objects(df, a)
           IN  /\ args' = a
               /\ ret' = r.ret
               /\ df' = r.objects.objects[1]
               /\ fitted' = r.objects
    /\ UNCHANGED fs

CallConverterObjects ==
    /\ pc = "start"
    /\ pc' = "converter_categorias"
    /\ \E a \in ConverterArgs :
           LET r == converter_categorias_objects(df, a)
           IN  /\ args' = a
               /\ ret' = r.ret
               /\ df' = r.objects.objects[1]
               /\ fitted' = r.objects
    /\ UNCHANGED fs

NextObjects == CallPreprocessObjects \/ CallPreencherObjects \/ CallConverterObjects

SpecObjects == InitObjects /\ [][NextObjects]_vars

\* C13: no call of preprocess_data, preencher_valores_numericos or
\* converter_categorias changes the caller's Table, whether the call returns
\* or raises: its columns and values after the call are those before it.
C13_InputNotMutated == [][df' = df]_vars

\* The Table the callee worked on, the object its df is bound to at the end.
Worked == deref(fitted)

\* A call has filled or encoded its copy, which now differs from the caller's
\* Table.
C13_Witness ==
    /\ pc \in {"preencher_valores_numericos", "converter_categorias"}
    /\ args.colunas # NoColunas
    /\ ret.status = "returned"
    /\ Worked # df
    /\ Worked.columns = df.columns

(***************************************************************************)
(* What preencher_valores_numericos returns (C14).                         *)
(***************************************************************************)
\* The columns a call selects.
Selected == IF args.colunas = NoColunas THEN numeric_columns(df) ELSE args.colunas

\* The fill value of the strategy for a column of the caller's Table.
StrategyValue(c) ==
    IF pc = "preencher_valores_numericos"
    THEN fill_value_of(df.col[c].values, args.estrategia, args.valor_constante)
    ELSE fill_value_uteis(df.col[c].values, args.estrategia)

\* C14: when preencher_valores_numericos returns normally for a valid
\* strategy, every selected column has no missing entry left, each entry that
\* was missing holding the fill value of the strategy, and the entries that
\* were present and the columns that were not selected are as they were;
\* columns whose entries are all missing included.
C14_FillLeavesNoMissing ==
    (Filled /\ args.estrategia \in Estrategias /\ ret.status = "returned") =>
        /\ ret.value.columns = df.columns
        /\ \A c \in Range(Selected) : \A i \in 1..df.nrows :
               /\ ~isnull(ret.value.col[c].values[i])
               /\ ~isnull(df.col[c].values[i]) =>
                      ret.value.col[c].values[i] = df.col[c].values[i]
               /\ isnull(df.col[c].values[i]) =>
                      ret.value.col[c].values[i] = StrategyValue(c).value
        /\ \A c \in Range(df.columns) \ Range(Selected) : ret.value.col[c] = df.col[c]

(***************************************************************************)
(* main of example_usage.py: the example workflow, statement by statement, *)
(* up to the statement that ends it.  The locals of main are in `args`.    *)
(***************************************************************************)
\* load_data, lines 31-34 of data_processing.py: both files are read; a file
\* that is absent fails the call.
load_data(files) ==
    IF ~({"train.csv", "test.csv"} \subseteq files.files) THEN Raised("FileNotFoundError")
    ELSE LET train_df == read_csv(files.content["train.csv"])
             test_df == read_csv(files.content["test.csv"])
         IN  IF train_df.status = "raised" THEN train_df
             ELSE IF test_df.status = "raised" THEN test_df
             ELSE Returned([train_df |-> train_df.value, test_df |-> test_df.value])

\* The columns of the training file: a numeric feature, a text feature and
\* the target SalePrice.
MainColumns(name, n) ==
    CASE name = "LotArea" ->
           {[dtype |-> "float64", values |-> v] : v \in [1..n -> {NA, Num(1, 1)}]}
      [] name = "Alley" ->
           {[dtype |-> "object", values |-> v] : v \in [1..n -> {NA, Str(<<"a">>)}]}
      [] OTHER ->
           {[dtype |-> "float64", values |-> v] : v \in [1..n -> {NA, Num(1, 1), Num(2, 1)}]}

MainTables(rows) ==
    UNION { { MkTable(cols, n, c) :
                c \in { f \in [Range(cols) -> UNION {MainColumns(name, n) : name \in ColNames}] :
                          \A name \in Range(cols) : f[name] \in MainColumns(name, n) } }
            : cols \in SubSeqsOf(ColumnOrder), n \in 0..rows }

\* The directory data/raw: empty, or holding train.csv and test.csv as to_csv
\* writes a Table.
DataRaw(rows) ==
    {[files |-> {}, content |-> [name \in {"train.csv", "test.csv"} |-> <<>>]]}
        \cup {[files |-> {"train.csv", "test.csv"},
               content |-> [name \in {"train.csv", "test.csv"} |-> to_csv(t)]]
              : t \in MainTables(rows)}

InitMain ==
    /\ pc = "start"
    /\ df = Unset
    /\ args = Unset
    /\ ret = Unset
    /\ fitted = Unset
    /\ fs \in DataRaw(MaxRows)

\* Line 24: train_df, test_df = load_data(data_path)
MainLoadData ==
    /\ pc = "start"
    /\ LET r == load_data(fs)
       IN  IF r.status = "raised"
           THEN pc' = "raised" /\ ret' = r /\ UNCHANGED df
           ELSE pc' = "load_data" /\ df' = r.value.train_df /\ UNCHANGED ret
    /\ UNCHANGED <<args, fitted, fs>>

\* Line 28: preprocess_data(train_df), every other parameter at its default.
MainPreprocessData ==
    /\ pc = "load_data"
    /\ pc' = "preprocess_data"
    /\ LET r == preprocess_data(df, None, TRUE, Rat(4, 5))
       IN  /\ df' = r.df
           /\ args' = [numeric_features |-> r.numeric_features,
                       categorical_features |-> r.categorical_features]
    /\ UNCHANGED <<ret, fitted, fs>>

\* Lines 31-32: X = train_df.drop('SalePrice', axis=1) and the log of the
\* target; a Table without the column fails the drop, a target that is not
\* numeric fails the log.
MainSeparateTarget ==
    /\ pc = "preprocess_data"
    /\ IF "SalePrice" \notin Range(df.columns)
       THEN pc' = "raised" /\ ret' = Raised("KeyError") /\ UNCHANGED args
       ELSE IF df.col["SalePrice"].dtype \notin {"int64", "float64", "bool"}
       THEN pc' = "raised" /\ ret' = Raised("TypeError") /\ UNCHANGED args
       ELSE /\ pc' = "separate"
            /\ args' = [numeric_features |-> args.numeric_features,
                        categorical_features |-> args.categorical_features,
                        X |-> drop(df, {"SalePrice"}),
                        y |-> [log1p_of |-> df.col["SalePrice"].values]]
            /\ UNCHANGED ret
    /\ UNCHANGED <<df, fitted, fs>>

\* Line 35: create_preprocessor(numeric_features, categorical_features)
MainCreatePreprocessor ==
    /\ pc = "separate"
    /\ pc' = "create_preprocessor"
    /\ fitted' = [preprocessor |->
                     create_preprocessor(args.numeric_features, args.categorical_features,
                                         "median", "most_frequent", TRUE),
                  learned |-> Unset]
    /\ UNCHANGED <<df, args, ret, fs>>

\* Line 38: split_data(X, y), with test_size=0.2 and the seed 42.
MainSplitData ==
    /\ pc = "create_preprocessor"
    /\ \E permutation \in Permutations1(df.nrows) :
           \E r \in split_data(RowsOf("X", df.nrows), RowsOf("y", df.nrows),
                               Float(1, 5), permutation, NoStratify) :
               IF r.status = "raised"
               THEN pc' = "raised" /\ ret' = r /\ UNCHANGED args
               ELSE /\ pc' = "split_data"
                    /\ args' = [numeric_features |-> args.numeric_features,
                                categorical_features |-> args.categorical_features,
                                X |-> args.X, y |-> args.y, split |-> r.value]
                    /\ UNCHANGED ret
    /\ UNCHANGED <<df, fitted, fs>>

\* Line 42: Pipeline(steps=[...]); example_usage.py imports no name Pipeline,
\* so the statement raises NameError and main ends before model.fit.
MainPipeline ==
    /\ pc = "split_data"
    /\ pc' = "raised"
    /\ ret' = Raised("NameError")
    /\ UNCHANGED <<df, args, fitted, fs>>

NextMain ==
    \/ MainLoadData
    \/ MainPreprocessData
    \/ MainSeparateTarget
    \/ MainCreatePreprocessor
    \/ MainSplitData
    \/ MainPipeline

SpecMain == InitMain /\ [][NextMain]_vars

\* C15: in the example workflow every column name handed to
\* create_preprocessor is a column of the feature Table X the pipeline is
\* fitted on, the target SalePrice not being among them.
C15_ListedFeaturesAreColumnsOfX ==
    pc \in {"create_preprocessor", "split_data"} =>
        Range(fitted.preprocessor.num.columns) \cup Range(fitted.preprocessor.cat.columns)
            \subseteq Range(args.X.columns)

\* C16: with the constant 0 the two implementations of
\* preencher_valores_numericos agree on every Table, column selection and
\* strategy name: both return the same filled Table or both raise.
C16_FillImplementationsAgree ==
    (Filled /\ args.valor_constante = IntCell(0)) =>
        LET src == preencher_valores_numericos(df, args.colunas, args.estrategia,
                                               args.valor_constante)
            uteis == preencher_valores_numericos_uteis(df, args.estrategia, args.colunas)
        IN  /\ src.status = uteis.status
            /\ src.status = "returned" => src.value = uteis.value

\* C17: every name in the numeric and categorical lists preprocess_data returns
\* is a column of the Table it returns, whatever target_column,
\* drop_high_missing and missing_threshold are; and with drop_high_missing a
\* target column whose missing fraction is above the threshold is removed from
\* the returned Table like any other column.
C17_ListsWithinReturnedTable ==
    Preprocessed =>
        /\ Range(ret.numeric_features) \subseteq Range(ret.df.columns)
        /\ Range(ret.categorical_features) \subseteq Range(ret.df.columns)
        /\ (/\ args.drop_high_missing
            /\ args.target_column \in Range(df.columns)
            /\ AboveThreshold(args.target_column))
               => args.target_column \notin Range(ret.df.columns)

\* A call with drop_high_missing whose target column is above the threshold
\* and was removed, while the name of another column stays listed.
C17_Witness ==
    /\ Preprocessed
    /\ args.drop_high_missing
    /\ args.target_column \in Range(df.columns)
    /\ AboveThreshold(args.target_column)
    /\ args.target_column \notin Range(ret.df.columns)
    /\ Len(ret.numeric_features) + Len(ret.categorical_features) > 0
====
